---- MODULE Spec2Model ----
(***************************************************************************)
(* Model of the file-converter Telegram bot: the per-session conversion    *)
(* selection (context.user_data['conversion_type']), the document handler  *)
(* with its suspension points, the FileConverter service and the scratch   *)
(* directory ./temp.                                                       *)
(***************************************************************************)
EXTENDS Integers, Sequences, FiniteSets, TLC

\* Number of chat sessions (users) talking to the bot.
NumSessions == 2

Sessions == 1..NumSessions

(***************************************************************************)
(* File names are sequences of characters, so that str.lower(),            *)
(* str.endswith(), Path.suffix and Path.stem are computed, not assumed.    *)
(***************************************************************************)
UpperChars == <<"A", "C", "D", "F", "O", "P", "X">>
LowerChars == <<"a", "c", "d", "f", "o", "p", "x">>

\* str.lower() on one character (the model's alphabet has the upper-case
\* letters of UpperChars only).
LowerChar(c) ==
    IF \E i \in 1..Len(UpperChars) : UpperChars[i] = c
    THEN LowerChars[CHOOSE i \in 1..Len(UpperChars) : UpperChars[i] = c]
    ELSE c

\* str.lower()
Lower(str) == [i \in 1..Len(str) |-> LowerChar(str[i])]

\* str.endswith(suffix)
EndsWith(str, suffix) ==
    /\ Len(str) >= Len(suffix)
    /\ SubSeq(str, Len(str) - Len(suffix) + 1, Len(str)) = suffix

\* str.endswith(tuple of suffixes)
EndsWithAny(str, suffixes) == \E suffix \in suffixes : EndsWith(str, suffix)

\* str.rfind('.'), 1-based; 0 when there is no dot
RFindDot(name) ==
    IF \E i \in 1..Len(name) : name[i] = "."
    THEN CHOOSE i \in 1..Len(name) :
            /\ name[i] = "."
            /\ \A j \in (i + 1)..Len(name) : name[j] # "."
    ELSE 0

\* pathlib: the last dot splits the name unless it is the first or the last
\* character of the name.
HasSuffix(name) == 1 < RFindDot(name) /\ RFindDot(name) < Len(name)

\* Path(p).suffix
PathSuffix(name) ==
    IF HasSuffix(name) THEN SubSeq(name, RFindDot(name), Len(name)) ELSE <<>>

\* Path(p).stem
PathStem(name) ==
    IF HasSuffix(name) THEN SubSeq(name, 1, RFindDot(name) - 1) ELSE name

DOC  == <<".", "d", "o", "c">>
DOCX == <<".", "d", "o", "c", "x">>
PDF  == <<".", "p", "d", "f">>

\* The document names the sessions upload; <<>> is a document without a
\* file name (file_name is None).
NoFileName == <<>>
A_DOCX == <<"a", ".", "d", "o", "c", "x">>
A_DOC == <<"a", ".", "d", "o", "c">>
A_DOCX_UPPER == <<"a", ".", "D", "O", "C", "X">>
A_PDF == <<"a", ".", "p", "d", "f">>
A_PDF_MIXED == <<"a", ".", "P", "d", "f">>
ONLY_PDF == <<".", "p", "d", "f">>
ONLY_DOCX == <<".", "d", "o", "c", "x">>
A_TXT == <<"a", ".", "t", "x", "t">>

FileNames ==
    { NoFileName, A_DOCX, A_DOC, A_DOCX_UPPER, A_PDF, A_PDF_MIXED,
      ONLY_PDF, ONLY_DOCX, A_TXT }

\* A path variable that holds None.
None == <<>>

\* Every name a file of the scratch directory can have: a download is stored
\* under the uploaded name, an output under <stem>.pdf or <stem>.docx.
ScratchNames ==
    (FileNames \ {NoFileName})
        \cup { PathStem(n) \o PDF : n \in FileNames \ {NoFileName} }
        \cup { PathStem(n) \o DOCX : n \in FileNames \ {NoFileName} }


(***************************************************************************)
(* State.                                                                  *)
(***************************************************************************)
VARIABLES
    concurrent_updates, \* Application.concurrent_updates: may updates be handled concurrently
    user_data,          \* per session: context.user_data.get('conversion_type')
    pc,                 \* per session: where its handle_document coroutine stands
    job,                \* per session: the locals and the effects of that coroutine
    fs,                 \* the scratch directory: name -> content (0: no such file,
                        \*   s: bytes derived from the upload of session s)
    call,               \* the last direct call of the Conversion Service and its result
    undeletable,        \* the scratch names whose os.remove fails (held open, no permission)
    press,              \* per session: the payload of its last menu button press,
                        \*   where the presses are recorded
    doc_paragraphs,     \* doc.paragraphs of the Word document word_to_pdf reads: their texts
    par_done,           \* how many of them the paragraph loop has gone through
    pdf_cells,          \* the txt of every pdf.multi_cell call so far
    reply               \* the last reply of /start, /help or the free-text handler,
                        \*   where these replies are recorded

\* The state besides the selections, the jobs, the scratch directory and the
\* record of direct calls: what handle_document and its steps leave alone.
rest == <<concurrent_updates, undeletable, press, doc_paragraphs, par_done, pdf_cells, reply>>

vars == <<user_data, pc, job, fs, call, rest>>

ConversionTypes == {"word_to_pdf", "pdf_to_word"}

\* callback_data of a pressed button (the menu offers the first two).
ButtonPayloads == ConversionTypes \cup {"other"}

\* max_size = 20 * 1024 * 1024
max_size == 20 * 1024 * 1024

\* file_size of an uploaded document: just below, at and just above the limit.
FileSizes == {max_size - 1, max_size, max_size + 1}

\* An exception: its class and str(e).
Exc(cls, msg) == [cls |-> cls, msg |-> msg]
NoExc == Exc("none", "")

\* A reply_text call: the text, the exception text formatted into it, and
\* whether the call returned (sent) or raised.
Msg(text, detail, sent) == [text |-> text, detail |-> detail, sent |-> sent]

(***************************************************************************)
(* FileConverter.                                                          *)
(***************************************************************************)

\* What the conversion library does once the converter's own checks passed:
\* it succeeds, raises before the output file is written, raises after the
\* output file was (partly) written, or returns without having written the
\* output file (the case the converter's "Output file not found" check is for).
LibOutcomes ==
    { [when |-> "never", exc |-> NoExc],
      [when |-> "skipped", exc |-> NoExc],
      [when |-> "before", exc |-> Exc("Exception", "library")],
      [when |-> "before", exc |-> Exc("ValueError", "library")],
      [when |-> "after", exc |-> Exc("Exception", "library")] }

\* The converter's result: the exception raised (or NoExc), the path returned,
\* the scratch directory afterwards, and the output path it wrote to.
ConvResult(exc, ret, fs1, written) ==
    [exc |-> exc, ret |-> ret, fs |-> fs1, written |-> written]

\* Faulty variant: the input file is looked for before its extension is checked.
word_to_pdf_ExistsFirst(fs0, word_file_path, lib) ==
    LET file_ext == Lower(PathSuffix(word_file_path))
        output_path == PathStem(word_file_path) \o PDF
        fs1 == [fs0 EXCEPT ![output_path] = fs0[word_file_path]]
    IN  IF fs0[word_file_path] = 0
        THEN ConvResult(Exc("FileNotFoundError", "Input file not found"), None, fs0, None)
        ELSE IF file_ext \notin {DOC, DOCX}
        THEN ConvResult(Exc("ValueError", "Invalid file extension"), None, fs0, None)
        ELSE IF lib.when = "before"
        THEN ConvResult(lib.exc, None, fs0, None)
        ELSE IF lib.when = "after"
        THEN ConvResult(lib.exc, None, fs1, output_path)
        ELSE IF lib.when = "skipped"
        THEN IF fs0[output_path] = 0
             THEN ConvResult(Exc("FileNotFoundError", "Output file not found"), None, fs0, None)
             ELSE ConvResult(NoExc, output_path, fs0, None)
        ELSE ConvResult(NoExc, output_path, fs1, output_path)

\* FileConverter.word_to_pdf(word_file_path)
word_to_pdf(fs0, word_file_path, lib) ==
    LET file_ext == Lower(PathSuffix(word_file_path))
        output_path == PathStem(word_file_path) \o PDF
        fs1 == [fs0 EXCEPT ![output_path] = fs0[word_file_path]]
    IN  IF file_ext \notin {DOC, DOCX}
        THEN ConvResult(Exc("ValueError", "Invalid file extension"), None, fs0, None)
        ELSE IF fs0[word_file_path] = 0
        THEN ConvResult(Exc("FileNotFoundError", "Input file not found"), None, fs0, None)
        ELSE IF lib.when = "before"
        THEN ConvResult(lib.exc, None, fs0, None)
        ELSE IF lib.when = "after"
        THEN ConvResult(lib.exc, None, fs1, output_path)
        ELSE IF lib.when = "skipped"
        THEN IF fs0[output_path] = 0
             THEN ConvResult(Exc("FileNotFoundError", "Output file not found"), None, fs0, None)
             ELSE ConvResult(NoExc, output_path, fs0, None)
        ELSE IF fs1[output_path] = 0
        THEN ConvResult(Exc("FileNotFoundError", "Output file not found"), None, fs1, None)
        ELSE ConvResult(NoExc, output_path, fs1, output_path)

\* Faulty variant: the output path is returned without the check that the
\* output file exists.
pdf_to_word_NoOutputCheck(fs0, pdf_file_path, lib) ==
    LET file_ext == Lower(PathSuffix(pdf_file_path))
        output_path == PathStem(pdf_file_path) \o DOCX
        fs1 == [fs0 EXCEPT ![output_path] = fs0[pdf_file_path]]
    IN  IF file_ext # PDF
        THEN ConvResult(Exc("ValueError", "Invalid file extension"), None, fs0, None)
        ELSE IF fs0[pdf_file_path] = 0
        THEN ConvResult(Exc("FileNotFoundError", "Input file not found"), None, fs0, None)
        ELSE IF lib.when = "before"
        THEN ConvResult(lib.exc, None, fs0, None)
        ELSE IF lib.when = "after"
        THEN ConvResult(lib.exc, None, fs1, output_path)
        ELSE IF lib.when = "skipped"
        THEN ConvResult(NoExc, output_path, fs0, None)
        ELSE ConvResult(NoExc, output_path, fs1, output_path)

\* FileConverter.pdf_to_word(pdf_file_path)
pdf_to_word(fs0, pdf_file_path, lib) ==
    LET file_ext == Lower(PathSuffix(pdf_file_path))
        output_path == PathStem(pdf_file_path) \o DOCX
        fs1 == [fs0 EXCEPT ![output_path] = fs0[pdf_file_path]]
    IN  IF file_ext # PDF
        THEN ConvResult(Exc("ValueError", "Invalid file extension"), None, fs0, None)
        ELSE IF fs0[pdf_file_path] = 0
        THEN ConvResult(Exc("FileNotFoundError", "Input file not found"), None, fs0, None)
        ELSE IF lib.when = "before"
        THEN ConvResult(lib.exc, None, fs0, None)
        ELSE IF lib.when = "after"
        THEN ConvResult(lib.exc, None, fs1, output_path)
        ELSE IF lib.when = "skipped"
        THEN IF fs0[output_path] = 0
             THEN ConvResult(Exc("FileNotFoundError", "Output file not found"), None, fs0, None)
             ELSE ConvResult(NoExc, output_path, fs0, None)
        ELSE IF fs1[output_path] = 0
        THEN ConvResult(Exc("FileNotFoundError", "Output file not found"), None, fs1, None)
        ELSE ConvResult(NoExc, output_path, fs1, output_path)

\* Faulty variant: no try/except, the error of os.remove leaves the function.
cleanup_temp_files_NoExcept(fs0, file_path) ==
    IF fs0[file_path] = 0
    THEN [fs |-> fs0, raised |-> FALSE]
    ELSE IF file_path \in undeletable
    THEN [fs |-> fs0, raised |-> TRUE]
    ELSE [fs |-> [fs0 EXCEPT ![file_path] = 0], raised |-> FALSE]

\* FileConverter.cleanup_temp_files(file_path): the scratch directory
\* afterwards, and whether an exception left the function. A path that does
\* not exist is left alone; an os.remove that fails is caught and logged.
cleanup_temp_files(fs0, file_path) ==
    IF fs0[file_path] = 0
    THEN [fs |-> fs0, raised |-> FALSE]
    ELSE IF file_path \in undeletable
    THEN [fs |-> fs0, raised |-> FALSE]
    ELSE [fs |-> [fs0 EXCEPT ![file_path] = 0], raised |-> FALSE]

(***************************************************************************)
(* handlers.py                                                             *)
(***************************************************************************)

\* The handler's bookkeeping for one document event: its locals
\* (conversion_type, file_name, file_size, download_path, output_path, the
\* exception caught), what it called and sent, and what was deleted.
NoJob ==
    [ conversion_type |-> "unset",
      file_name       |-> NoFileName,
      file_size       |-> 0,
      accepted        |-> FALSE,   \* passed validation: the try block was entered
      download_path   |-> None,
      output_path     |-> None,
      exc             |-> NoExc,
      document        |-> 0,       \* content of the file opened for send_document
      written         |-> None,    \* the output path the converter wrote to
      replies         |-> <<>>,    \* reply_text calls, in order
      delivered       |-> <<>>,    \* attachments the chat received
      removed         |-> <<>>,    \* paths deleted by os.remove, in order
      cleanup_calls   |-> <<>>,    \* paths cleanup_temp_files was called with, in order
      n_get_file      |-> 0,
      n_download      |-> 0,
      n_convert       |-> 0,
      n_send_document |-> 0,
      escaped         |-> FALSE ]  \* an exception left handle_document

\* Application.builder().token(TELEGRAM_TOKEN).build(): concurrent_updates is
\* left at its default, so the next update is dispatched only when the
\* handler of the previous one has returned.
CanDispatch == concurrent_updates \/ \A t \in Sessions : pc[t] = "idle"

\* button_callback: the selection is stored after query.answer() and the
\* prompt's reply_text returned; either may raise.
button_callback(s, data) ==
    /\ CanDispatch
    /\ \E answered \in BOOLEAN, replied \in BOOLEAN :
         user_data' =
            IF answered /\ replied /\ data = "word_to_pdf"
            THEN [user_data EXCEPT ![s] = "word_to_pdf"]
            ELSE IF answered /\ replied /\ data = "pdf_to_word"
            THEN [user_data EXCEPT ![s] = "pdf_to_word"]
            ELSE user_data
    /\ UNCHANGED <<rest, pc, job, fs, call>>

\* button_callback again, with the payload of a menu button noted in press
\* as the handler starts.
ButtonPress(s, data) ==
    /\ CanDispatch
    /\ \E answered \in BOOLEAN, replied \in BOOLEAN :
         user_data' =
            IF answered /\ replied /\ data = "word_to_pdf"
            THEN [user_data EXCEPT ![s] = "word_to_pdf"]
            ELSE IF answered /\ replied /\ data = "pdf_to_word"
            THEN [user_data EXCEPT ![s] = "pdf_to_word"]
            ELSE user_data
    /\ press' = IF data \in ConversionTypes THEN [press EXCEPT ![s] = data] ELSE press
    /\ UNCHANGED <<reply, concurrent_updates, undeletable, doc_paragraphs, par_done, pdf_cells,
                   pc, job, fs, call>>

\* Faulty variant: only the empty string counts as "no selection".
NoSelection_EmptyOnly(conversion_type) == conversion_type = ""

\* not conversion_type
NoSelection(conversion_type) == conversion_type = "unset"

\* Faulty variant: the Word branch tests the PDF extension.
NotWord_PdfCheck(file_name) == ~EndsWith(Lower(file_name), PDF)

\* not file_name.lower().endswith(('.doc', '.docx'))
NotWord(file_name) == ~EndsWithAny(Lower(file_name), {DOC, DOCX})

\* Faulty variant: the PDF branch tests the Word extensions.
NotPdf_WordCheck(file_name) == ~EndsWithAny(Lower(file_name), {DOC, DOCX})

\* not file_name.lower().endswith('.pdf')
NotPdf(file_name) == ~EndsWith(Lower(file_name), PDF)

\* Faulty variant: a file of exactly max_size is rejected too.
TooLarge_Inclusive(file_size) == file_size >= max_size

\* file_size > max_size
TooLarge(file_size) == file_size > max_size

\* Faulty variant: the size is checked before the extension.
Validate_SizeFirst(conversion_type, file_name, file_size) ==
    IF NoSelection(conversion_type) THEN "select_first"
    ELSE IF file_name = NoFileName THEN "no_file_name"
    ELSE IF TooLarge(file_size) THEN "too_large"
    ELSE IF conversion_type = "word_to_pdf" /\ NotWord(file_name) THEN "word_extension"
    ELSE IF conversion_type = "pdf_to_word" /\ NotPdf(file_name) THEN "pdf_extension"
    ELSE "accept"

\* The checks of handle_document before the try block, in the code's order:
\* the text of the rejection, or "accept".
Validate(conversion_type, file_name, file_size) ==
    IF NoSelection(conversion_type) THEN "select_first"
    ELSE IF file_name = NoFileName THEN "no_file_name"
    ELSE IF conversion_type = "word_to_pdf" /\ NotWord(file_name) THEN "word_extension"
    ELSE IF conversion_type = "pdf_to_word" /\ NotPdf(file_name) THEN "pdf_extension"
    ELSE IF TooLarge(file_size) THEN "too_large"
    ELSE "accept"

\* Faulty variant: a rejection drops the selection.
RejectDocument_ClearsSelection(s, j, text) ==
    /\ \E sent \in BOOLEAN :
         job' = [job EXCEPT ![s] =
                    [j EXCEPT !.replies = <<Msg(text, "", sent)>>, !.escaped = ~sent]]
    /\ pc' = [pc EXCEPT ![s] = "returning"]
    /\ user_data' = [user_data EXCEPT ![s] = "unset"]
    /\ UNCHANGED <<rest, fs, call>>

\* A rejection: one reply_text, then return. The reply may raise, and the
\* exception then leaves the handler.
RejectDocument(s, j, text) ==
    /\ \E sent \in BOOLEAN :
         job' = [job EXCEPT ![s] =
                    [j EXCEPT !.replies = <<Msg(text, "", sent)>>, !.escaped = ~sent]]
    /\ pc' = [pc EXCEPT ![s] = "returning"]
    /\ UNCHANGED <<rest, user_data, fs, call>>

\* The try block is entered: temp/ is created and get_file is awaited.
AcceptDocument(s, j) ==
    /\ job' = [job EXCEPT ![s] = [j EXCEPT !.accepted = TRUE]]
    /\ pc' = [pc EXCEPT ![s] = "get_file"]
    /\ UNCHANGED <<rest, user_data, fs, call>>

\* handle_document up to its first await.
handle_document(s, file_name, file_size) ==
    /\ CanDispatch
    /\ pc[s] = "idle"
    /\ LET conversion_type == user_data[s]
           j == [NoJob EXCEPT !.conversion_type = conversion_type,
                              !.file_name = file_name,
                              !.file_size = file_size]
           verdict == Validate(conversion_type, file_name, file_size)
       IN  IF verdict = "accept"
           THEN AcceptDocument(s, j)
           ELSE RejectDocument(s, j, verdict)

\* Faulty variant: a failed call is tried again from get_file.
Raise_Retry(s, j, exc) ==
    /\ job' = [job EXCEPT ![s] = j]
    /\ pc' = [pc EXCEPT ![s] = "get_file"]

\* An exception is raised inside the try block.
Raise(s, j, exc) ==
    /\ job' = [job EXCEPT ![s] = [j EXCEPT !.exc = exc]]
    /\ pc' = [pc EXCEPT ![s] = "except"]

\* await context.bot.get_file(...) returns or raises.
GetFile(s) ==
    /\ pc[s] = "get_file"
    /\ LET j == [job[s] EXCEPT !.n_get_file = @ + 1]
       IN  \E ok \in BOOLEAN :
             IF ok
             THEN /\ job' = [job EXCEPT ![s] = [j EXCEPT !.download_path = j.file_name]]
                  /\ pc' = [pc EXCEPT ![s] = "download"]
             ELSE Raise(s, j, Exc("Exception", "network"))
    /\ UNCHANGED <<rest, user_data, fs, call>>

\* await file.download_to_drive(...): the file is written, or the call
\* raises with nothing or with a partial file on disk; then the existence
\* check of the downloaded file.
DownloadToDrive(s) ==
    /\ pc[s] = "download"
    /\ LET j == [job[s] EXCEPT !.n_download = @ + 1]
           stored == [fs EXCEPT ![j.download_path] = s]
       IN  \E outcome \in {"ok", "failed", "partial"} :
             IF outcome = "ok"
             THEN /\ fs' = stored
                  /\ IF fs'[j.download_path] = 0
                     THEN Raise(s, j, Exc("FileNotFoundError", "Downloaded file not found"))
                     ELSE /\ job' = [job EXCEPT ![s] = j]
                          /\ pc' = [pc EXCEPT ![s] = "reply_converting"]
             ELSE /\ fs' = IF outcome = "partial" THEN stored ELSE fs
                  /\ Raise(s, j, Exc("Exception", "network"))
    /\ UNCHANGED <<rest, user_data, call>>

\* await reply_text("Converting your file...") returns or raises.
ReplyConverting(s) ==
    /\ pc[s] = "reply_converting"
    /\ \E sent \in BOOLEAN :
         LET j == [job[s] EXCEPT !.replies = Append(@, Msg("converting", "", sent))]
         IN  IF sent
             THEN /\ job' = [job EXCEPT ![s] = j]
                  /\ pc' = [pc EXCEPT ![s] = "convert"]
             ELSE Raise(s, j, Exc("Exception", "network"))
    /\ UNCHANGED <<rest, user_data, fs, call>>

\* Faulty variant: the document opened is taken to be the session's own
\* upload, whatever the scratch directory holds at the download path.
Convert_OwnUpload(s) ==
    /\ pc[s] = "convert"
    /\ \E lib \in LibOutcomes :
         LET j == [job[s] EXCEPT !.n_convert = @ + 1]
             r == IF j.conversion_type = "word_to_pdf"
                  THEN word_to_pdf(fs, j.download_path, lib)
                  ELSE pdf_to_word(fs, j.download_path, lib)
             jw == [j EXCEPT !.written = r.written]
         IN  /\ fs' = r.fs
             /\ IF r.exc = NoExc
                THEN /\ job' = [job EXCEPT ![s] =
                                   [jw EXCEPT !.output_path = r.ret,
                                              !.document = s]]
                     /\ pc' = [pc EXCEPT ![s] = "send_document"]
                ELSE Raise(s, jw, r.exc)
    /\ UNCHANGED <<rest, user_data, call>>

\* The conversion call chosen by the local conversion_type; on success the
\* output file is opened and send_document is awaited.
Convert(s) ==
    /\ pc[s] = "convert"
    /\ \E lib \in LibOutcomes :
         LET j == [job[s] EXCEPT !.n_convert = @ + 1]
             r == IF j.conversion_type = "word_to_pdf"
                  THEN word_to_pdf(fs, j.download_path, lib)
                  ELSE pdf_to_word(fs, j.download_path, lib)
             jw == [j EXCEPT !.written = r.written]
         IN  /\ fs' = r.fs
             /\ IF r.exc = NoExc
                THEN /\ job' = [job EXCEPT ![s] =
                                   [jw EXCEPT !.output_path = r.ret,
                                              !.document = fs'[r.ret]]]
                     /\ pc' = [pc EXCEPT ![s] = "send_document"]
                ELSE Raise(s, jw, r.exc)
    /\ UNCHANGED <<rest, user_data, call>>

\* The caption of the attachment.
Caption(conversion_type) ==
    IF conversion_type = "word_to_pdf" THEN "converted PDF" ELSE "converted Word"

\* Faulty variant: the caption is chosen by the session's selection at the
\* time of the upload, not by the job's local conversion_type.
SendDocument_RereadsSelection(s) ==
    /\ pc[s] = "send_document"
    /\ LET j == [job[s] EXCEPT !.n_send_document = @ + 1]
       IN  \E ok \in BOOLEAN :
             IF ok
             THEN /\ job' = [job EXCEPT ![s] =
                                [j EXCEPT !.delivered = Append(@,
                                    [ caption  |-> Caption(user_data[s]),
                                      filename |-> j.output_path,
                                      content  |-> j.document ])]]
                  /\ pc' = [pc EXCEPT ![s] = "finally"]
             ELSE Raise(s, j, Exc("Exception", "network"))
    /\ UNCHANGED <<rest, user_data, fs, call>>

\* await context.bot.send_document(...) returns or raises.
SendDocument(s) ==
    /\ pc[s] = "send_document"
    /\ LET j == [job[s] EXCEPT !.n_send_document = @ + 1]
       IN  \E ok \in BOOLEAN :
             IF ok
             THEN /\ job' = [job EXCEPT ![s] =
                                [j EXCEPT !.delivered = Append(@,
                                    [ caption  |-> Caption(j.conversion_type),
                                      filename |-> j.output_path,
                                      content  |-> j.document ])]]
                  /\ pc' = [pc EXCEPT ![s] = "finally"]
             ELSE Raise(s, j, Exc("Exception", "network"))
    /\ UNCHANGED <<rest, user_data, fs, call>>

\* Faulty variant: every except clause formats str(e) into its reply.
ErrorReply_AlwaysDetail(exc, sent) ==
    IF exc.cls = "FileNotFoundError" THEN Msg("error_not_found", exc.msg, sent)
    ELSE IF exc.cls = "ValueError" THEN Msg("error_value", exc.msg, sent)
    ELSE Msg("error_generic", exc.msg, sent)

\* The reply of the except clause that catches the exception.
ErrorReply(exc, sent) ==
    IF exc.cls = "FileNotFoundError" THEN Msg("error_not_found", "", sent)
    ELSE IF exc.cls = "ValueError" THEN Msg("error_value", exc.msg, sent)
    ELSE Msg("error_generic", "", sent)

\* Faulty variant: no except clause, the exception goes on to the finally
\* block and leaves the handler without a reply.
ExceptReply_Reraise(s) ==
    /\ pc[s] = "except"
    /\ job' = [job EXCEPT ![s] = [@ EXCEPT !.escaped = TRUE]]
    /\ pc' = [pc EXCEPT ![s] = "finally"]
    /\ UNCHANGED <<rest, user_data, fs, call>>

\* except ...: await reply_text(...) returns or raises (the exception then
\* leaves the handler once the finally block has run).
ExceptReply(s) ==
    /\ pc[s] = "except"
    /\ \E sent \in BOOLEAN :
         job' = [job EXCEPT ![s] =
                    [@ EXCEPT !.replies = Append(@, ErrorReply(job[s].exc, sent)),
                              !.escaped = ~sent]]
    /\ pc' = [pc EXCEPT ![s] = "finally"]
    /\ UNCHANGED <<rest, user_data, fs, call>>

\* if path and os.path.exists(path): is cleanup_temp_files called for it?
Cleans(fs0, path) == path # None /\ fs0[path] # 0

\* The two cleanup calls of the finally block, the download first; an
\* exception leaving the first call would skip the second and leave the
\* handler.
CleanupJob(s) ==
    LET j == job[s]
        c1 == Cleans(fs, j.download_path)
        k1 == IF c1 THEN cleanup_temp_files(fs, j.download_path)
                    ELSE [fs |-> fs, raised |-> FALSE]
        fs1 == k1.fs
        c2 == ~k1.raised /\ Cleans(fs1, j.output_path)
        k2 == IF c2 THEN cleanup_temp_files(fs1, j.output_path)
                    ELSE [fs |-> fs1, raised |-> FALSE]
        fs2 == k2.fs
        r1 == IF c1 /\ fs1 # fs THEN <<j.download_path>> ELSE <<>>
        r2 == IF c2 /\ fs2 # fs1 THEN <<j.output_path>> ELSE <<>>
        a1 == IF c1 THEN <<j.download_path>> ELSE <<>>
        a2 == IF c2 THEN <<j.output_path>> ELSE <<>>
    IN  /\ fs' = fs2
        /\ job' = [job EXCEPT ![s] =
                      [j EXCEPT !.removed = @ \o r1 \o r2,
                                !.cleanup_calls = a1 \o a2,
                                !.escaped = @ \/ k1.raised \/ k2.raised]]

\* Faulty variant: the finally block also drops the selection.
Finally_ClearsSelection(s) ==
    /\ pc[s] = "finally"
    /\ CleanupJob(s)
    /\ pc' = [pc EXCEPT ![s] = "returning"]
    /\ user_data' = [user_data EXCEPT ![s] = "unset"]
    /\ UNCHANGED <<rest, call>>

\* finally: the download and the output are cleaned up, in this order.
Finally(s) ==
    /\ pc[s] = "finally"
    /\ CleanupJob(s)
    /\ pc' = [pc EXCEPT ![s] = "returning"]
    /\ UNCHANGED <<rest, user_data, call>>

\* handle_document returns (or its exception reaches the dispatcher): the
\* coroutine and its locals are gone.
Return(s) ==
    /\ pc[s] = "returning"
    /\ pc' = [pc EXCEPT ![s] = "idle"]
    /\ job' = [job EXCEPT ![s] = NoJob]
    /\ UNCHANGED <<rest, user_data, fs, call>>

\* No reply of /start, /help or the free-text handler was recorded.
NoReply == [session |-> 0, handler |-> "none", text |-> "none", sent |-> FALSE, n |-> 0]

\* utils.log_user_action(update, action): a log record is written. The call
\* is given the update and a text, not the context that holds user_data.
log_user_action(s, action) == TRUE

\* await update.message.reply_text(text) of one of these handlers returns or
\* raises; n is the number of their replies so far, modulo 2.
ReplyText(s, handler, text) ==
    \E sent \in BOOLEAN :
        reply' = [session |-> s, handler |-> handler, text |-> text, sent |-> sent,
                  n |-> 1 - reply.n]

\* Faulty variant: showing the menu drops the selection.
start_command_ResetsSelection(s) ==
    /\ CanDispatch
    /\ log_user_action(s, "started the bot")
    /\ ReplyText(s, "start_command", "menu")
    /\ user_data' = [user_data EXCEPT ![s] = "unset"]
    /\ UNCHANGED <<concurrent_updates, undeletable, press, doc_paragraphs, par_done,
                   pdf_cells, pc, job, fs, call>>

\* start_command: the welcome text with the two-button menu.
start_command(s) ==
    /\ CanDispatch
    /\ log_user_action(s, "started the bot")
    /\ ReplyText(s, "start_command", "menu")
    /\ UNCHANGED <<concurrent_updates, undeletable, press, doc_paragraphs, par_done,
                   pdf_cells, user_data, pc, job, fs, call>>

\* help_command: the help text.
help_command(s) ==
    /\ CanDispatch
    /\ log_user_action(s, "requested help")
    /\ ReplyText(s, "help_command", "help")
    /\ UNCHANGED <<concurrent_updates, undeletable, press, doc_paragraphs, par_done,
                   pdf_cells, user_data, pc, job, fs, call>>

\* handle_message: the usage hint for a text that is no command.
handle_message(s) ==
    /\ CanDispatch
    /\ log_user_action(s, "sent message")
    /\ ReplyText(s, "handle_message", "usage_hint")
    /\ UNCHANGED <<concurrent_updates, undeletable, press, doc_paragraphs, par_done,
                   pdf_cells, user_data, pc, job, fs, call>>

\* No press of a menu button was recorded.
NoPress == "none"

\* No direct call of the Conversion Service was made yet.
NoCall == [fn |-> "none", path |-> None, existed |-> FALSE, exc |-> NoExc, ret |-> None]

Init ==
    /\ concurrent_updates = FALSE
    /\ user_data = [s \in Sessions |-> "unset"]
    /\ pc = [s \in Sessions |-> "idle"]
    /\ job = [s \in Sessions |-> NoJob]
    /\ fs = [n \in ScratchNames |-> 0]
    /\ call = NoCall
    /\ undeletable = {}
    /\ press = [s \in Sessions |-> NoPress]
    /\ doc_paragraphs = <<>>
    /\ par_done = 0
    /\ pdf_cells = <<>>
    /\ reply = NoReply

Next ==
    \/ \E s \in Sessions, data \in ButtonPayloads : button_callback(s, data)
    \/ \E s \in Sessions, file_name \in FileNames, file_size \in FileSizes :
          handle_document(s, file_name, file_size)
    \/ \E s \in Sessions : GetFile(s)
    \/ \E s \in Sessions : DownloadToDrive(s)
    \/ \E s \in Sessions : ReplyConverting(s)
    \/ \E s \in Sessions : Convert(s)
    \/ \E s \in Sessions : SendDocument(s)
    \/ \E s \in Sessions : ExceptReply(s)
    \/ \E s \in Sessions : Finally(s)
    \/ \E s \in Sessions : Return(s)

Spec == Init /\ [][Next]_vars

\* The next step of the handler of session s: the await it is suspended at
\* returns or raises, or the code up to the next await runs.
HandlerStep(s) ==
    \/ GetFile(s)
    \/ DownloadToDrive(s)
    \/ ReplyConverting(s)
    \/ Convert(s)
    \/ SendDocument(s)
    \/ ExceptReply(s)
    \/ Finally(s)
    \/ Return(s)

\* The names of the documents uploaded where the handlers' progress is
\* followed.
FairFileNames == {A_DOCX, A_PDF}

NextFair ==
    \/ \E s \in Sessions, data \in ConversionTypes : button_callback(s, data)
    \/ \E s \in Sessions, file_name \in FairFileNames :
          handle_document(s, file_name, max_size)
    \/ \E s \in Sessions : HandlerStep(s)

\* Every external call returns or raises in the end, and the event loop runs
\* a handler that can go on.
SpecFair == Init /\ [][NextFair]_vars /\ \A s \in Sessions : WF_vars(HandlerStep(s))

(***************************************************************************)
(* The bot with updates handled concurrently: a handler runs up to its     *)
(* next await, and another update's handler may run in between.            *)
(***************************************************************************)

\* The sessions whose updates are handled concurrently.
ConcurrentSessions == {1, 2}

\* The name of the documents they upload: the same one for both.
ConcurrentFileNames == {A_DOCX}

InitConcurrent ==
    /\ concurrent_updates = TRUE
    /\ user_data = [s \in Sessions |-> "unset"]
    /\ pc = [s \in Sessions |-> "idle"]
    /\ job = [s \in Sessions |-> NoJob]
    /\ fs = [n \in ScratchNames |-> 0]
    /\ call = NoCall
    /\ undeletable = {}
    /\ press = [s \in Sessions |-> NoPress]
    /\ doc_paragraphs = <<>>
    /\ par_done = 0
    /\ pdf_cells = <<>>
    /\ reply = NoReply

NextConcurrent ==
    \/ \E s \in ConcurrentSessions, data \in ConversionTypes : button_callback(s, data)
    \/ \E s \in ConcurrentSessions, file_name \in ConcurrentFileNames :
          handle_document(s, file_name, max_size)
    \/ \E s \in ConcurrentSessions : GetFile(s)
    \/ \E s \in ConcurrentSessions : DownloadToDrive(s)
    \/ \E s \in ConcurrentSessions : ReplyConverting(s)
    \/ \E s \in ConcurrentSessions : Convert(s)
    \/ \E s \in ConcurrentSessions : SendDocument(s)
    \/ \E s \in ConcurrentSessions : ExceptReply(s)
    \/ \E s \in ConcurrentSessions : Finally(s)
    \/ \E s \in ConcurrentSessions : Return(s)

SpecConcurrent == InitConcurrent /\ [][NextConcurrent]_vars

\* Two sessions with different selections that upload documents of the same
\* stem: a.docx to be converted to PDF, a.pdf to be converted to Word.
KindOf(s) == IF s = 1 THEN "word_to_pdf" ELSE "pdf_to_word"
UploadOf(s) == IF s = 1 THEN A_DOCX ELSE A_PDF

NextConcurrentNames ==
    \/ \E s \in ConcurrentSessions : button_callback(s, KindOf(s))
    \/ \E s \in ConcurrentSessions : handle_document(s, UploadOf(s), max_size)
    \/ \E s \in ConcurrentSessions : HandlerStep(s)

SpecConcurrentNames == InitConcurrent /\ [][NextConcurrentNames]_vars

(***************************************************************************)
(* The bot where os.remove fails for some scratch file, and                *)
(* cleanup_temp_files called directly while no handler runs.               *)
(***************************************************************************)

\* The scratch names with a file that cannot be deleted.
Undeletables == {{}, {A_DOCX}, {A_PDF}}

\* The names of the documents uploaded and of the paths cleaned up directly.
CleanupFileNames == {A_DOCX, A_PDF}

InitCleanup ==
    /\ concurrent_updates = FALSE
    /\ user_data = [s \in Sessions |-> "unset"]
    /\ pc = [s \in Sessions |-> "idle"]
    /\ job = [s \in Sessions |-> NoJob]
    /\ fs = [n \in ScratchNames |-> 0]
    /\ call = NoCall
    /\ undeletable \in Undeletables
    /\ press = [s \in Sessions |-> NoPress]
    /\ doc_paragraphs = <<>>
    /\ par_done = 0
    /\ pdf_cells = <<>>
    /\ reply = NoReply

\* file_converter.cleanup_temp_files(path)
CallCleanup(path) ==
    /\ \A s \in Sessions : pc[s] = "idle"
    /\ LET r == cleanup_temp_files(fs, path)
       IN  /\ call' = [fn |-> "cleanup_temp_files", path |-> path, existed |-> fs[path] # 0,
                       exc |-> IF r.raised THEN Exc("OSError", "remove") ELSE NoExc,
                       ret |-> None]
           /\ fs' = r.fs
    /\ UNCHANGED <<rest, user_data, pc, job>>

NextCleanup ==
    \/ \E s \in Sessions, data \in ConversionTypes : button_callback(s, data)
    \/ \E s \in Sessions, file_name \in CleanupFileNames :
          handle_document(s, file_name, max_size)
    \/ \E s \in Sessions : GetFile(s)
    \/ \E s \in Sessions : DownloadToDrive(s)
    \/ \E s \in Sessions : ReplyConverting(s)
    \/ \E s \in Sessions : Convert(s)
    \/ \E s \in Sessions : SendDocument(s)
    \/ \E s \in Sessions : ExceptReply(s)
    \/ \E s \in Sessions : Finally(s)
    \/ \E s \in Sessions : Return(s)
    \/ \E path \in CleanupFileNames : CallCleanup(path)

SpecCleanup == InitCleanup /\ [][NextCleanup]_vars

(***************************************************************************)
(* The bot with the button presses recorded.                               *)
(***************************************************************************)

\* The names of the documents uploaded between the presses.
PressFileNames == {A_DOCX, A_PDF}

NextPresses ==
    \/ \E s \in Sessions, data \in ButtonPayloads : ButtonPress(s, data)
    \/ \E s \in Sessions, file_name \in PressFileNames :
          handle_document(s, file_name, max_size)
    \/ \E s \in Sessions : GetFile(s)
    \/ \E s \in Sessions : DownloadToDrive(s)
    \/ \E s \in Sessions : ReplyConverting(s)
    \/ \E s \in Sessions : Convert(s)
    \/ \E s \in Sessions : SendDocument(s)
    \/ \E s \in Sessions : ExceptReply(s)
    \/ \E s \in Sessions : Finally(s)
    \/ \E s \in Sessions : Return(s)

SpecPresses == Init /\ [][NextPresses]_vars

(***************************************************************************)
(* The bot with the replies of /start, /help and free text recorded.       *)
(***************************************************************************)

\* The names of the documents uploaded between the commands.
CommandFileNames == {A_DOCX, A_PDF}

NextCommands ==
    \/ \E s \in Sessions : start_command(s)
    \/ \E s \in Sessions : help_command(s)
    \/ \E s \in Sessions : handle_message(s)
    \/ \E s \in Sessions, data \in ConversionTypes : button_callback(s, data)
    \/ \E s \in Sessions, file_name \in CommandFileNames :
          handle_document(s, file_name, max_size)
    \/ \E s \in Sessions : HandlerStep(s)

SpecCommands == Init /\ [][NextCommands]_vars

(***************************************************************************)
(* The Conversion Service called directly, as test_conversion.py does, on  *)
(* any path of the scratch directory, present or not.                      *)
(***************************************************************************)

\* The paths the direct calls are made with.
CallPaths == {A_DOCX, A_DOC, A_PDF, A_PDF_MIXED, ONLY_DOCX, A_TXT}

\* A file is put into the scratch directory (doc.save / pdf.output of the
\* sample builders).
CreateFile(name) ==
    /\ fs[name] = 0
    /\ fs' = [fs EXCEPT ![name] = 1]
    /\ UNCHANGED <<rest, user_data, pc, job, call>>

\* test_file.unlink()
Unlink(name) ==
    /\ fs[name] # 0
    /\ fs' = [fs EXCEPT ![name] = 0]
    /\ UNCHANGED <<rest, user_data, pc, job, call>>

\* The record of a direct call.
CallOf(fn, path, existed, r) ==
    [fn |-> fn, path |-> path, existed |-> existed, exc |-> r.exc, ret |-> r.ret]

\* converter.word_to_pdf(path)
CallWordToPdf(path, lib) ==
    LET r == word_to_pdf(fs, path, lib)
    IN  /\ call' = CallOf("word_to_pdf", path, fs[path] # 0, r)
        /\ fs' = r.fs
        /\ UNCHANGED <<rest, user_data, pc, job>>

\* converter.pdf_to_word(path)
CallPdfToWord(path, lib) ==
    LET r == pdf_to_word(fs, path, lib)
    IN  /\ call' = CallOf("pdf_to_word", path, fs[path] # 0, r)
        /\ fs' = r.fs
        /\ UNCHANGED <<rest, user_data, pc, job>>

NextConverter ==
    \/ \E name \in CallPaths : CreateFile(name)
    \/ \E name \in ScratchNames : Unlink(name)
    \/ \E path \in CallPaths, lib \in LibOutcomes : CallWordToPdf(path, lib)
    \/ \E path \in CallPaths, lib \in LibOutcomes : CallPdfToWord(path, lib)

SpecConverter == Init /\ [][NextConverter]_vars

(***************************************************************************)
(* The paragraph loop of word_to_pdf: a text is the sequence of the code   *)
(* points of its characters (ord).                                         *)
(***************************************************************************)

\* str.isspace of one character: what str.strip() takes off both ends.
IsSpace(c) ==
    \/ c \in 9..13
    \/ c \in 28..32
    \/ c \in {133, 160, 5760, 8232, 8233, 8239, 8287, 12288}
    \/ c \in 8192..8202

\* bool(paragraph.text.strip()): some character of the text is not white space.
StripNonEmpty(text) == \E i \in 1..Len(text) : ~IsSpace(text[i])

\* Faulty variant: the text is written as it is, no character is dropped.
CleanedText_KeepsAll(text) == text

\* cleaned_text = "".join(char for char in paragraph.text if ord(char) < 128)
CleanedText(text) == SelectSeq(text, LAMBDA char : char < 128)

\* The paragraphs of create_sample_docx.
SAMPLE_1 == <<84, 104, 105, 115, 32, 105, 115, 32, 97, 32, 116, 101, 115, 116, 32, 100, 111, 99, 117, 109, 101, 110, 116, 46>>
SAMPLE_2 == <<73, 116, 32, 99, 111, 110, 116, 97, 105, 110, 115, 32, 109, 117, 108, 116, 105, 112, 108, 101, 32, 112, 97, 114, 97, 103, 114, 97, 112, 104, 115, 46>>
SAMPLE_3 == <<85, 115, 101, 100, 32, 102, 111, 114, 32, 116, 101, 115, 116, 105, 110, 103, 32, 102, 105, 108, 101, 32, 99, 111, 110, 118, 101, 114, 115, 105, 111, 110, 46>>
SampleParagraphs == <<SAMPLE_1, SAMPLE_2, SAMPLE_3>>

\* Paragraph texts a Word document may hold besides the sample's: none, a
\* blank, a tab between letters, and letters outside ASCII alone and after
\* an ASCII one.
ParagraphTexts ==
    { SAMPLE_1, SAMPLE_2, SAMPLE_3,
      <<>>, <<32>>, <<97, 9, 98>>, <<233>>, <<110, 233>> }

\* The most paragraphs of a document.
MaxParagraphs == 3

\* The documents: up to MaxParagraphs paragraphs.
Documents == UNION { [1..n -> ParagraphTexts] : n \in 0..MaxParagraphs }

\* pdf = FPDF(); pdf.add_page(); doc = Document(word_file_path): a conversion
\* starts when no other is under way.
OpenDocument(d) ==
    /\ doc_paragraphs = <<>>
    /\ doc_paragraphs' = d
    /\ par_done' = 0
    /\ pdf_cells' = <<>>
    /\ UNCHANGED <<reply, concurrent_updates, undeletable, press, user_data, pc, job, fs, call>>

\* One iteration of "for paragraph in doc.paragraphs".
ProcessParagraph ==
    /\ par_done < Len(doc_paragraphs)
    /\ LET text == doc_paragraphs[par_done + 1]
       IN  pdf_cells' = IF StripNonEmpty(text)
                        THEN Append(pdf_cells, CleanedText(text))
                        ELSE pdf_cells
    /\ par_done' = par_done + 1
    /\ UNCHANGED <<reply, concurrent_updates, undeletable, press, doc_paragraphs,
                   user_data, pc, job, fs, call>>

\* pdf.output(output_path) after the loop: the conversion is over.
Output ==
    /\ doc_paragraphs # <<>>
    /\ par_done = Len(doc_paragraphs)
    /\ doc_paragraphs' = <<>>
    /\ par_done' = 0
    /\ pdf_cells' = <<>>
    /\ UNCHANGED <<reply, concurrent_updates, undeletable, press, user_data, pc, job, fs, call>>

NextParagraphs ==
    \/ \E d \in Documents : OpenDocument(d)
    \/ ProcessParagraph
    \/ Output

SpecParagraphs == Init /\ [][NextParagraphs]_vars

(***************************************************************************)
(* Properties.                                                             *)
(***************************************************************************)

\* A document event of session s is being handled or has just been handled.
InEvent(s) == pc[s] # "idle"

\* The handler of session s made no call to the bot API or the converter.
NoCalls(s) ==
    /\ job[s].n_get_file = 0
    /\ job[s].n_download = 0
    /\ job[s].n_convert = 0
    /\ job[s].n_send_document = 0
    /\ job[s].download_path = None
    /\ job[s].delivered = <<>>

\* The handler of session s rejected the document with exactly this reply.
RejectedWith(s, text) ==
    /\ pc[s] = "returning"
    /\ ~job[s].accepted
    /\ Len(job[s].replies) = 1
    /\ job[s].replies[1].text = text

\* C1: a document that arrives while the session has no selection is answered
\* with the "select a conversion type first" instruction, nothing is fetched,
\* downloaded, converted or uploaded and no job is created; a job exists only
\* for a session whose selection was set when its document arrived.
C1_NoSelectionNoJob ==
    \A s \in Sessions :
        /\ (InEvent(s) /\ job[s].conversion_type = "unset")
              => (RejectedWith(s, "select_first") /\ NoCalls(s))
        /\ job[s].accepted => job[s].conversion_type \in ConversionTypes

C1_Witness ==
    \E s \in Sessions :
        /\ job[s].conversion_type = "unset"
        /\ job[s].file_name = A_DOCX
        /\ RejectedWith(s, "select_first")

\* C2: under word_to_pdf a file name that does not end, case-insensitively,
\* in .doc or .docx is rejected with the Word message and neither get_file
\* nor download_to_drive is called for it.
C2_WordExtensionRejected ==
    \A s \in Sessions :
        ( /\ InEvent(s)
          /\ job[s].conversion_type = "word_to_pdf"
          /\ job[s].file_name # NoFileName
          /\ ~EndsWithAny(Lower(job[s].file_name), {DOC, DOCX}) )
        => (RejectedWith(s, "word_extension") /\ NoCalls(s))

C2_Witness ==
    \E s \in Sessions :
        /\ job[s].conversion_type = "word_to_pdf"
        /\ job[s].file_name = A_PDF_MIXED
        /\ RejectedWith(s, "word_extension")

\* C3: under pdf_to_word a file name that does not end, case-insensitively,
\* in .pdf is rejected with the PDF message and neither get_file nor
\* download_to_drive is called for it.
C3_PdfExtensionRejected ==
    \A s \in Sessions :
        ( /\ InEvent(s)
          /\ job[s].conversion_type = "pdf_to_word"
          /\ job[s].file_name # NoFileName
          /\ ~EndsWith(Lower(job[s].file_name), PDF) )
        => (RejectedWith(s, "pdf_extension") /\ NoCalls(s))

C3_Witness ==
    \E s \in Sessions :
        /\ job[s].conversion_type = "pdf_to_word"
        /\ job[s].file_name = A_DOCX_UPPER
        /\ RejectedWith(s, "pdf_extension")

\* The document of session s passed the selection, file name and extension
\* checks.
PassedNameChecks(s) ==
    /\ InEvent(s)
    /\ job[s].conversion_type \in ConversionTypes
    /\ job[s].file_name # NoFileName
    /\ job[s].conversion_type = "word_to_pdf"
          => EndsWithAny(Lower(job[s].file_name), {DOC, DOCX})
    /\ job[s].conversion_type = "pdf_to_word"
          => EndsWith(Lower(job[s].file_name), PDF)

\* C4: a document that passed the other checks is rejected as too large,
\* with no download attempt, exactly when its size is above 20 MiB; a size of
\* 20 MiB or less is accepted and goes on to the download.
C4_SizeLimit ==
    \A s \in Sessions :
        PassedNameChecks(s) =>
            /\ job[s].file_size > 20 * 1024 * 1024
                  => (RejectedWith(s, "too_large") /\ NoCalls(s))
            /\ job[s].file_size <= 20 * 1024 * 1024
                  => /\ job[s].accepted
                     /\ \A i \in 1..Len(job[s].replies) :
                            job[s].replies[i].text # "too_large"
                     /\ pc[s] = "get_file" \/ job[s].n_get_file = 1

C4_Witness ==
    \E s \in Sessions :
        /\ PassedNameChecks(s)
        /\ job[s].file_size = 20 * 1024 * 1024
        /\ job[s].n_download = 1
        /\ fs[job[s].download_path] = s

\* The replies of a failed validation.
ValidationErrors == {"no_file_name", "word_extension", "pdf_extension", "too_large"}

\* C5: the step that rejects a document for a missing file name, a wrong
\* extension or its size leaves the selection of every session as it was.
C5_RejectKeepsSelection ==
    [][ \A s \in Sessions :
            ( /\ pc[s] = "idle"
              /\ pc'[s] = "returning"
              /\ job'[s].replies[1].text \in ValidationErrors )
            => user_data' = user_data ]_vars

C5_Witness ==
    \E s \in Sessions :
        /\ user_data[s] = "pdf_to_word"
        /\ job[s].file_name = A_DOCX
        /\ RejectedWith(s, "pdf_extension")

\* The handler of session s has finished a job that reached the Converting
\* stage.
JobEnded(s) == pc[s] = "returning" /\ job[s].accepted

\* No path was deleted twice.
RemovedOnce(removed) ==
    \A i \in 1..Len(removed), k \in 1..Len(removed) :
        removed[i] = removed[k] => i = k

\* C6: when a job that reached the Converting stage has ended, on any path,
\* the scratch directory holds neither its download nor the output its
\* conversion wrote, and no file of the job was deleted twice.
C6_ScratchCleanAfterJob ==
    \A s \in Sessions :
        JobEnded(s) =>
            /\ job[s].download_path # None => fs[job[s].download_path] = 0
            /\ job[s].written # None => fs[job[s].written] = 0
            /\ RemovedOnce(job[s].removed)

\* C7: a job that reached the Converting stage does not change the selection:
\* throughout the job and at its end, success or failure, the selection is
\* the one read when the document arrived.
C7_JobKeepsSelection ==
    \A s \in Sessions :
        job[s].accepted => user_data[s] = job[s].conversion_type

C7_Witness ==
    \E s \in Sessions :
        /\ JobEnded(s)
        /\ Len(job[s].delivered) = 1
        /\ user_data[s] = "word_to_pdf"
        /\ job[s].conversion_type = "word_to_pdf"

\* The replies of the except clauses.
ErrorTexts == {"error_not_found", "error_value", "error_generic"}

\* C8 as claimed: no error reply that reached the user in the Converting
\* stage carries text of the exception.
C8_NoExceptionDetail ==
    \A s \in Sessions :
        \A i \in 1..Len(job[s].replies) :
            (job[s].replies[i].text \in ErrorTexts /\ job[s].replies[i].sent)
                => job[s].replies[i].detail = ""

\* C8 amended: an error reply of the Converting stage carries text of the
\* exception exactly when the exception is a ValueError, and then it is
\* str(e); for FileNotFoundError and every other exception the reply is a
\* fixed text.
C8_DetailOnlyForValueError ==
    \A s \in Sessions :
        \A i \in 1..Len(job[s].replies) :
            job[s].replies[i].text \in ErrorTexts =>
                /\ job[s].accepted
                /\ job[s].exc # NoExc
                /\ job[s].exc.cls = "ValueError"
                      => /\ job[s].replies[i].text = "error_value"
                         /\ job[s].replies[i].detail = job[s].exc.msg
                /\ job[s].exc.cls # "ValueError"
                      => /\ job[s].replies[i].text \in {"error_not_found", "error_generic"}
                         /\ job[s].replies[i].detail = ""

C8_Witness ==
    \E s \in Sessions :
        /\ JobEnded(s)
        /\ job[s].exc = Exc("Exception", "library")
        /\ job[s].written # None
        /\ job[s].replies[Len(job[s].replies)] = Msg("error_generic", "", TRUE)

\* C9: for an accepted document get_file, download_to_drive, the conversion
\* and send_document are each called at most once; a job that ended without
\* an exception delivered exactly one attachment, with the caption of its
\* conversion, and a job that ended with an exception delivered none.
C9_AtMostOnceOneAttachment ==
    \A s \in Sessions :
        /\ job[s].n_get_file <= 1
        /\ job[s].n_download <= 1
        /\ job[s].n_convert <= 1
        /\ job[s].n_send_document <= 1
        /\ JobEnded(s) =>
              IF job[s].exc = NoExc
              THEN /\ Len(job[s].delivered) = 1
                   /\ job[s].delivered[1].caption =
                         (IF job[s].conversion_type = "word_to_pdf"
                          THEN "converted PDF" ELSE "converted Word")
              ELSE job[s].delivered = <<>>

C9_Witness ==
    \E s \in Sessions :
        /\ JobEnded(s)
        /\ job[s].conversion_type = "pdf_to_word"
        /\ job[s].delivered = << [ caption |-> "converted Word",
                                   filename |-> A_DOCX,
                                   content |-> s ] >>

\* C10: a direct call whose path has the wrong suffix raises ValueError
\* whether or not the file exists, a call whose path has the right suffix
\* and no file raises FileNotFoundError, and neither changes the scratch
\* directory.
C10_ExtensionBeforeExistence ==
    [][ call' # call =>
          LET suffix == Lower(PathSuffix(call'.path))
              right == IF call'.fn = "word_to_pdf"
                       THEN suffix \in {DOC, DOCX}
                       ELSE suffix = PDF
          IN  /\ ~right => (call'.exc.cls = "ValueError" /\ fs' = fs)
              /\ (right /\ fs[call'.path] = 0)
                    => (call'.exc.cls = "FileNotFoundError" /\ fs' = fs) ]_vars

C10_Witness ==
    /\ call.fn = "word_to_pdf"
    /\ call.path = A_PDF
    /\ ~call.existed
    /\ call.exc.cls = "ValueError"

(***************************************************************************)
(* The paragraph loop.                                                     *)
(***************************************************************************)

\* The paragraph loop has gone through the whole document.
LoopDone == par_done = Len(doc_paragraphs)

\* The texts of the paragraphs the loop writes, in order.
WrittenParagraphs == SelectSeq(doc_paragraphs, StripNonEmpty)

\* The characters of a text within the printable 7-bit range (space to tilde).
Printable(text) == SelectSeq(text, LAMBDA char : char \in 32..126)

\* C11 as stated: once word_to_pdf has gone through the document, the PDF
\* holds one text block per non-empty paragraph, in order, each the
\* paragraph's text without the characters outside the printable 7-bit range.
C11_PrintableOnly ==
    LoopDone =>
        /\ Len(pdf_cells) = Len(WrittenParagraphs)
        /\ \A i \in 1..Len(pdf_cells) : pdf_cells[i] = Printable(WrittenParagraphs[i])

\* C11 amended: once word_to_pdf has gone through the document, the PDF holds
\* one text block per paragraph whose text is not white space only, in
\* order, each the paragraph's text without the characters of code point 128
\* and above (control characters stay, and a block may be empty); the
\* 3-paragraph sample gives its 3 paragraphs, unchanged and non-empty.
C11_AsciiOnly ==
    LoopDone =>
        /\ Len(pdf_cells) = Len(WrittenParagraphs)
        /\ \A i \in 1..Len(pdf_cells) :
              /\ \A k \in 1..Len(pdf_cells[i]) : pdf_cells[i][k] < 128
              /\ pdf_cells[i] = SelectSeq(WrittenParagraphs[i], LAMBDA c : c \in 0..127)
        /\ doc_paragraphs = SampleParagraphs =>
              /\ pdf_cells = SampleParagraphs
              /\ \A i \in 1..3 : pdf_cells[i] # <<>>

\* The sample document was converted: 3 text blocks were written.
C11_Witness ==
    /\ LoopDone
    /\ doc_paragraphs = SampleParagraphs
    /\ Len(pdf_cells) = 3

(***************************************************************************)
(* The Conversion Service's return value.                                  *)
(***************************************************************************)

\* The extension of the file a converter function writes.
TargetExt(fn) == IF fn = "word_to_pdf" THEN PDF ELSE DOCX

\* C12: whenever word_to_pdf or pdf_to_word returns without raising, the path
\* returned is the scratch directory's entry named by the input's stem plus
\* the target extension (.pdf, .docx), and a file exists there at that moment.
C12_ReturnedPathExists ==
    [][ (call' # call /\ call'.exc = NoExc) =>
            /\ call'.ret = PathStem(call'.path) \o TargetExt(call'.fn)
            /\ fs'[call'.ret] # 0 ]_vars

\* pdf_to_word returned temp/a.docx for temp/a.pdf and the file is there.
C12_Witness ==
    /\ call.fn = "pdf_to_word"
    /\ call.path = A_PDF
    /\ call.exc = NoExc
    /\ call.ret = <<"a">> \o DOCX
    /\ fs[call.ret] # 0

(***************************************************************************)
(* Concurrent sessions.                                                    *)
(***************************************************************************)

\* Session s holds an accepted document whose handler has not returned.
Running(s) == job[s].accepted /\ pc[s] # "idle"

PathsOf(paths) == { paths[i] : i \in 1..Len(paths) }

\* C14: cleanup_temp_files never raises: called for a path that does not
\* exist it changes nothing, and when the delete fails it returns with the
\* file still there. So in the finally block of handle_document a failed
\* cleanup of the download does not keep the output from being cleaned up
\* (its cleanup is called whenever the output file exists) and adds no
\* exception to the handler's return.
C14_CleanupNeverRaises ==
    [][ /\ (call' # call /\ call'.fn = "cleanup_temp_files") =>
              /\ call'.exc = NoExc
              /\ ~call'.existed => fs' = fs
              /\ (call'.existed /\ call'.path \in undeletable) => fs' = fs
              /\ (call'.existed /\ call'.path \notin undeletable) =>
                    fs' = [fs EXCEPT ![call'.path] = 0]
        /\ \A s \in Sessions :
              (pc[s] = "finally" /\ pc'[s] = "returning") =>
                  /\ job'[s].escaped = job[s].escaped
                  /\ Cleans(fs, job[s].output_path) =>
                        /\ job[s].output_path \in PathsOf(job'[s].cleanup_calls)
                        /\ job[s].output_path \notin undeletable =>
                              fs'[job[s].output_path] = 0 ]_vars

\* The finally block ran for a job whose download could not be deleted: the
\* download is still there, the output's cleanup was called after it and the
\* output is gone, and no exception leaves the handler.
C14_Witness ==
    \E s \in Sessions :
        /\ pc[s] = "returning"
        /\ job[s].download_path = A_DOCX
        /\ job[s].output_path = A_PDF
        /\ A_DOCX \in undeletable
        /\ fs[A_DOCX] # 0
        /\ job[s].cleanup_calls = <<A_DOCX, A_PDF>>
        /\ job[s].removed = <<A_PDF>>
        /\ fs[A_PDF] = 0
        /\ ~job[s].escaped

(***************************************************************************)
(* The selection and the button presses.                                   *)
(***************************************************************************)

\* C15: a session's selection is unset or one of the two kinds, and it is
\* the payload of the session's most recent press of one of the two menu
\* buttons (unset when there was none): a press overwrites the selection,
\* a press with another payload leaves it as it is.
C15_SelectionIsLastPress ==
    \A s \in Sessions :
        /\ user_data[s] \in {"unset"} \cup ConversionTypes
        /\ user_data[s] = IF press[s] = NoPress THEN "unset" ELSE press[s]

(***************************************************************************)
(* The order of the checks.                                                *)
(***************************************************************************)

\* Does the extension of the file name match the kind selected?
ExtensionMatches(kind, file_name) ==
    IF kind = "word_to_pdf"
    THEN EndsWithAny(Lower(file_name), {DOC, DOCX})
    ELSE EndsWith(Lower(file_name), PDF)

\* The error of the first check that fails, the checks taken in the order
\* file name, extension, size ("none": they all pass).
FirstFailing(kind, file_name, file_size) ==
    IF file_name = NoFileName THEN "no_file_name"
    ELSE IF ~ExtensionMatches(kind, file_name)
    THEN IF kind = "word_to_pdf" THEN "word_extension" ELSE "pdf_extension"
    ELSE IF file_size > max_size THEN "too_large"
    ELSE "none"

\* C16: for a document that arrives with a selection, handle_document checks
\* the file name, then the extension against the kind, then the size: a
\* rejected document gets exactly one reply, the error of the first check
\* that fails (a wrong extension on an oversize file is an extension error,
\* a missing name is a file name error whatever the size), and a document
\* is accepted only when all three checks pass.
C16_FirstFailingCheck ==
    \A s \in Sessions :
        (InEvent(s) /\ job[s].conversion_type \in ConversionTypes) =>
            LET first == FirstFailing(job[s].conversion_type, job[s].file_name,
                                      job[s].file_size)
            IN  /\ job[s].accepted <=> first = "none"
                /\ ~job[s].accepted =>
                      /\ Len(job[s].replies) = 1
                      /\ job[s].replies[1].text = first
                      /\ NoCalls(s)

\* An oversize file with a wrong extension was rejected with the extension
\* error alone.
C16_Witness ==
    \E s \in Sessions :
        /\ RejectedWith(s, "word_extension")
        /\ job[s].conversion_type = "word_to_pdf"
        /\ job[s].file_name = A_TXT
        /\ job[s].file_size > max_size

(***************************************************************************)
(* Termination of a job.                                                   *)
(***************************************************************************)

\* The error replies among the reply_text calls of a job.
ErrorReplies(replies) == SelectSeq(replies, LAMBDA m : m.text \in ErrorTexts)

\* How a job that has ended stands: its result was delivered and no error
\* was reported, or nothing was delivered and exactly one error reply was
\* made, the last reply of the job; an exception leaves the handler only
\* when the reply_text of that error reply raised itself.
EndedProperly(s) ==
    /\ \/ /\ job[s].exc = NoExc
          /\ Len(job[s].delivered) = 1
          /\ ErrorReplies(job[s].replies) = <<>>
          /\ ~job[s].escaped
       \/ /\ job[s].exc # NoExc
          /\ job[s].delivered = <<>>
          /\ Len(ErrorReplies(job[s].replies)) = 1
          /\ job[s].replies[Len(job[s].replies)].text \in ErrorTexts
          /\ job[s].escaped <=> ~job[s].replies[Len(job[s].replies)].sent

CaptionOf(kind) == IF kind = "word_to_pdf" THEN "converted PDF" ELSE "converted Word"

\* The suffix check of the converter function of a kind.
SuffixAccepted(kind, file_name) ==
    IF kind = "word_to_pdf"
    THEN Lower(PathSuffix(file_name)) \in {DOC, DOCX}
    ELSE Lower(PathSuffix(file_name)) = PDF

C19_ChecksAgree ==
    \A s \in Sessions :
        (InEvent(s) /\ job[s].accepted) =>
            /\ SuffixAccepted(job[s].conversion_type, job[s].file_name)
            /\ job[s].exc # Exc("ValueError", "Invalid file extension")

(***************************************************************************)
(* Scratch paths of concurrent jobs.                                       *)
(***************************************************************************)

\* The scratch paths the job of session s reads, writes or deletes: its
\* download, the output its conversion wrote, the output path it holds.
PathsOfJob(s) == {job[s].download_path, job[s].written, job[s].output_path} \ {None}

CommandTexts ==
    [start_command |-> "menu", help_command |-> "help", handle_message |-> "usage_hint"]

\* C21: /start, /help and a free-text message, whatever the session's
\* selection and whatever the scratch directory holds, only make their one
\* reply (menu, help text, usage hint): the step leaves every session's
\* selection as it was (a stale one too), starts no handler of a document
\* (no download, no conversion) and changes no scratch file.
C21_CommandsOnlyReply ==
    [][ reply' # reply =>
            /\ reply'.handler \in DOMAIN CommandTexts
            /\ reply'.text = CommandTexts[reply'.handler]
            /\ user_data' = user_data
            /\ pc' = pc
            /\ job' = job
            /\ fs' = fs
            /\ call' = call ]_vars

\* The menu was shown again to a session whose selection is pdf_to_word,
\* with a file left in the scratch directory by an earlier job: the
\* selection is still there.
C21_Witness ==
    /\ reply.handler = "start_command"
    /\ reply.sent
    /\ reply.session \in Sessions
    /\ user_data[reply.session] = "pdf_to_word"
    /\ \E name \in ScratchNames : fs[name] # 0

====
